---- MODULE Spec2Model ----
(***************************************************************************)
(* TruCite front-end scripts (src/static/script.js and the variants under  *)
(* src/unnamed): a page loads one variant; a click on VERIFY runs the      *)
(* variant's handler(s), each of which POSTs the payload, awaits the       *)
(* response and paints the result or an error state into the DOM.          *)
(***************************************************************************)
EXTENDS Integers, Sequences, FiniteSets, TLC

\* ------------------------------------------------------------------ bounds
MaxClicks == 2
MaxHandlers == 2

\* ------------------------------------------------------- program constants
DashTotal == 260
AllowAt == 80
BlockBelow == 50

\* ------------------------------------------------------------- JS values
\* The source's non-ASCII characters are written as HTML entities (&mdash;,
\* &hellip;, &middot;).
\* Every JavaScript value is a tagged record: t is the type tag, s a string,
\* n an integer, c a sequence of characters, a a sequence of values; an
\* object carries its own properties as further fields.
Undef == [t |-> "undef"]
Null == [t |-> "null"]
NaN == [t |-> "nan"]
Num(n) == [t |-> "num", n |-> n]
S(s) == [t |-> "str", s |-> s]
Chars(c) == [t |-> "chars", c |-> c]
Bool(b) == [t |-> "bool", b |-> b]
Arr(a) == [t |-> "arr", a |-> a]
EmptyObj == [t |-> "obj"]
\* template-literal / "+" concatenation of the parts, in order
Cat(parts) == [t |-> "cat", a |-> parts]

Nullish(v) == v.t \in {"undef", "null"}

\* ToBoolean
Truthy(v) ==
  CASE v.t \in {"undef", "null", "nan"} -> FALSE
    [] v.t = "num" -> v.n # 0
    [] v.t = "str" -> v.s # ""
    [] v.t = "chars" -> v.c # <<>>
    [] v.t = "bool" -> v.b
    [] OTHER -> TRUE

\* a || b
Or(a, b) == IF Truthy(a) THEN a ELSE b
\* a ?? b
Coal(a, b) == IF Nullish(a) THEN b ELSE a
\* o?.f ; also o.f on a non-nullish o
Get(o, f) == IF o.t = "obj" /\ f \in DOMAIN o THEN o[f] ELSE Undef
\* typeof v === "string" / "number" / "object"
IsString(v) == v.t \in {"str", "chars"}
IsNumber(v) == v.t \in {"num", "nan"}
IsObject(v) == v.t \in {"obj", "arr", "null"}

\* Number(string) on the strings the model uses
StrToNum(s) ==
  CASE s = "" -> Num(0)
    [] s = "50" -> Num(50)
    [] s = "90" -> Num(90)
    [] OTHER -> NaN

\* Number(v)
ToNumber(v) ==
  CASE v.t = "num" -> v
    [] v.t = "null" -> Num(0)
    [] v.t = "bool" -> IF v.b THEN Num(1) ELSE Num(0)
    [] v.t = "str" -> StrToNum(v.s)
    [] v.t = "arr" -> IF v.a = <<>> THEN Num(0) ELSE NaN
    [] OTHER -> NaN

Min2(a, b) == IF a < b THEN a ELSE b
Max2(a, b) == IF a > b THEN a ELSE b

\* Math.max(lo, Math.min(hi, v)) on a Number: NaN propagates
MathClamp(v, lo, hi) == IF v.t = "nan" THEN NaN ELSE Num(Max2(lo, Min2(hi, v.n)))

\* total - (total * s) / 100 on a Number
DashOffset(s) ==
  IF s.t = "nan" THEN NaN ELSE Num(DashTotal - (DashTotal * s.n) \div 100)

\* Math.round on a Number
MathRound(v) == v

\* String(v) for display: a number keeps its value under the tag "numstr"
ToStr(v) ==
  CASE v.t = "num" -> [t |-> "numstr", n |-> v.n]
    [] v.t = "nan" -> S("NaN")
    [] v.t = "undef" -> S("undefined")
    [] v.t = "null" -> S("null")
    [] OTHER -> v

\* String.prototype.trim on a sequence of characters
IsSpace(ch) == ch = " "
RECURSIVE TrimLeft(_)
TrimLeft(c) ==
  IF c = <<>> THEN <<>>
  ELSE IF IsSpace(Head(c)) THEN TrimLeft(Tail(c)) ELSE c
RECURSIVE TrimRight(_)
TrimRight(c) ==
  IF c = <<>> THEN <<>>
  ELSE IF IsSpace(c[Len(c)]) THEN TrimRight(SubSeq(c, 1, Len(c) - 1)) ELSE c
Trim(c) == TrimRight(TrimLeft(c))

\* ------------------------------------------------- strings the code inspects
\* Decision strings are sequences of characters, so that toUpperCase and
\* includes are computed and not looked up.
cALLOW == <<"A", "L", "L", "O", "W">>
cREVIEW == <<"R", "E", "V", "I", "E", "W">>
cBLOCK == <<"B", "L", "O", "C", "K">>
cPASS == <<"P", "A", "S", "S">>
cAPPROVE == <<"A", "P", "P", "R", "O", "V", "E">>
cFAIL == <<"F", "A", "I", "L">>
cDENY == <<"D", "E", "N", "Y">>
cDash == <<"&mdash;">>

UpperCh(ch) ==
  CASE ch = "a" -> "A" [] ch = "b" -> "B" [] ch = "c" -> "C" [] ch = "d" -> "D"
    [] ch = "e" -> "E" [] ch = "f" -> "F" [] ch = "i" -> "I" [] ch = "k" -> "K"
    [] ch = "l" -> "L" [] ch = "n" -> "N" [] ch = "o" -> "O" [] ch = "p" -> "P"
    [] ch = "r" -> "R" [] ch = "s" -> "S" [] ch = "v" -> "V" [] ch = "w" -> "W"
    [] ch = "y" -> "Y"
    [] OTHER -> ch

\* String.prototype.toUpperCase
ToUpper(c) == [i \in 1..Len(c) |-> UpperCh(c[i])]

\* String.prototype.includes
Includes(c, sub) ==
  \E i \in 1..(Len(c) - Len(sub) + 1) : SubSeq(c, i, i + Len(sub) - 1) = sub

\* the characters of a string value; a value that is no string has none
CharsOf(v) == IF v.t = "chars" THEN v.c ELSE <<>>

\* the ALLOW / BLOCK / REVIEW normalisation shared by part_001, part_002, part_008
NormalizeAction(c) ==
  LET a == ToUpper(c) IN
  IF Includes(a, cALLOW) \/ Includes(a, cPASS) \/ Includes(a, cAPPROVE) THEN Chars(cALLOW)
  ELSE IF Includes(a, cBLOCK) \/ Includes(a, cFAIL) \/ Includes(a, cDENY) THEN Chars(cBLOCK)
  ELSE Chars(cREVIEW)

\* ------------------------------------------------------------ gauge code
\* Number(score) || 0
NumberOr0(v) == Or(ToNumber(v), Num(0))

\* script.js second IIFE, part_004, part_005, part_006: the offset updateGauge
\* ends with
updateGauge(score) == DashOffset(MathClamp(NumberOr0(score), 0, 100))

\* part_001, part_002, part_008: setGauge
setGauge(score) ==
  LET s == MathClamp(NumberOr0(score), 0, 100) IN
  [offset |-> DashOffset(s), display |-> ToStr(MathRound(s))]

\* part_007: setGauge, called with a number
setGauge007(score) ==
  [offset |-> DashOffset(MathClamp(score, 0, 100)), display |-> ToStr(score)]

\* part_007: typeof data.score === "number" ? data.score : 0
score007(data) ==
  IF IsNumber(Get(data, "score")) THEN Get(data, "score") ELSE Num(0)

\* data?.claims?.[0]?.score
FirstClaim(data, f) ==
  LET cl == Get(data, "claims") IN
  IF cl.t = "arr" /\ cl.a # <<>> THEN Get(cl.a[1], f) ELSE Undef

\* part_003: Number(data?.score ?? data?.claims?.[0]?.score ?? 0) and the offset
score003(data) == ToNumber(Coal(Coal(Get(data, "score"), FirstClaim(data, "score")), Num(0)))
gauge003(data) == DashOffset(MathClamp(score003(data), 0, 100))

\* script.js global scoreText: Number(data.score ?? 0), clamped, and the offset
scoreGlobal(data) == ToNumber(Coal(Get(data, "score"), Num(0)))
gaugeGlobal(data) == DashOffset(MathClamp(scoreGlobal(data), 0, 100))

\* part_000: Math.max(0, Math.min(100, Number(data.score || 0))) and the offset
score000(data) == MathClamp(ToNumber(Or(Get(data, "score"), Num(0))), 0, 100)
gauge000(data) == DashOffset(score000(data))

\* part_000: verdictFromScore
verdictFromScore(score) ==
  IF score.t = "nan" THEN S("Likely False / Misleading")
  ELSE IF score.n >= 85 THEN S("Likely True / Well-Supported")
  ELSE IF score.n >= 65 THEN S("Plausible / Needs Verification")
  ELSE IF score.n >= 40 THEN S("Questionable / High Uncertainty")
  ELSE S("Likely False / Misleading")

\* ------------------------------------------------------- decision gates
\* s >= 80 ? "ALLOW" : s < 50 ? "BLOCK" : "REVIEW" on the clamped score
InferAction(score) ==
  LET s == MathClamp(NumberOr0(score), 0, 100) IN
  IF s.n >= AllowAt THEN Chars(cALLOW)
  ELSE IF s.n < BlockBelow THEN Chars(cBLOCK) ELSE Chars(cREVIEW)

Or3(a, b, c) == Or(Or(a, b), c)

\* part_002 and part_008: setDecisionGateFromBackend, the action and reason
\* it writes to #gateAction and #gateReason
setDecisionGateFromBackend(data, score) ==
  LET decisionObj == Or(Or3(Get(data, "decision"), Get(data, "decision_gate"),
                            Get(data, "gate")), Null)
      isObj == Truthy(decisionObj) /\ IsObject(decisionObj)
      rawAction == IF isObj
                   THEN Or(Or3(Get(decisionObj, "action"), Get(decisionObj, "outcome"),
                               Get(decisionObj, "label")), Null)
                   ELSE Null
      rawReason == IF isObj
                   THEN Or(Or3(Get(decisionObj, "reason"), Get(decisionObj, "rationale"),
                               Get(decisionObj, "explanation")), Null)
                   ELSE Null
      action == IF IsString(rawAction) THEN NormalizeAction(CharsOf(rawAction))
                ELSE rawAction
      inferred == ~Truthy(action)
      action2 == IF inferred THEN InferAction(score) ELSE action
      reason2 == IF inferred
                 THEN S("Inferred from Truth Score threshold (configurable).")
                 ELSE rawReason
  IN [action |-> action2,
      reason |-> Or(reason2, S("See validation details below."))]

\* part_001: setDecisionGate
setDecisionGate(data, score) ==
  LET gate == Or(Or(Or3(Get(data, "decision_gate"), Get(data, "decision"),
                        Get(data, "gate")),
                    Or(Get(data, "verdict_action"), Get(data, "action"))), Null)
      gateObj == Truthy(gate) /\ IsObject(gate)
      action == IF IsString(gate) THEN NormalizeAction(CharsOf(gate))
                ELSE IF gateObj
                THEN NormalizeAction(CharsOf(Or(Or3(Get(gate, "action"), Get(gate, "outcome"),
                                                    Get(gate, "label")), Chars(<<>>))))
                ELSE Null
      reason == Or(Or(Or(IF gateObj
                         THEN Or3(Get(gate, "reason"), Get(gate, "rationale"),
                                  Get(gate, "explanation"))
                         ELSE Bool(FALSE),
                         Get(data, "gate_reason")),
                      Or3(Get(data, "reason"), Get(data, "rationale"),
                          Get(data, "explanation"))),
                   S("See validation details below."))
  IN IF ~Truthy(action)
     THEN [action |-> InferAction(score),
           reason |-> S("Inferred from Truth Score threshold (configurable).")]
     ELSE [action |-> action, reason |-> reason]

\* part_001 / part_002 / part_008: setVerdictText
setVerdictText(score, verdictTextFromAPI) ==
  LET s == MathClamp(NumberOr0(score), 0, 100) IN
  IF Truthy(verdictTextFromAPI) /\ IsString(verdictTextFromAPI) THEN verdictTextFromAPI
  ELSE IF s.n >= 85 THEN S("High reliability (demo)")
  ELSE IF s.n >= 60 THEN S("Moderate reliability (review recommended)")
  ELSE S("Low reliability (high risk)")

\* part_005 and part_006: normalizeDecision
normalizeDecision(data) ==
  LET rawDecision == Get(data, "decision") IN
  IF Truthy(rawDecision) /\ IsObject(rawDecision)
  THEN [action |-> Or(Get(rawDecision, "action"), Chars(cREVIEW)),
        reason |-> Or(Get(rawDecision, "reason"), S(""))]
  ELSE [action |-> Or(IF IsString(rawDecision) THEN rawDecision ELSE Null, Chars(cREVIEW)),
        reason |-> Or(Or(Or3(Get(Get(data, "decision_detail"), "reason"),
                             Get(data, "decision_reason"), Get(data, "reason")),
                         Get(Get(data, "decision_detail"), "message")),
                      S(""))]

\* (action || "REVIEW").toUpperCase() in renderResponse of part_005 / part_006
UpperAction(a) ==
  LET v == Or(a, Chars(cREVIEW)) IN
  IF v.t = "chars" THEN Chars(ToUpper(v.c)) ELSE v

\* --------------------------------------------------- part_005: safe output
POLICY_MODE == S("enterprise")
SHOW_DEBUG == FALSE

\* JSON.stringify(obj, null, 2): the text of a value. Two texts are equal
\* exactly when the values are, so the text is kept as the value under a tag.
safeJson(obj) == [t |-> "json", v |-> obj]

\* String(x).toUpperCase()
StrUpper(v) == IF v.t = "chars" THEN Chars(ToUpper(v.c)) ELSE ToStr(v)

\* part_005: stripHtml; HtmlBody is the one body that carries an HTML page
HtmlBody == S("<html><title>502</title></html>")
stripHtml(raw) ==
  IF ~Truthy(raw) THEN S("")
  ELSE IF raw = HtmlBody THEN S("[backend returned HTML error body]")
  ELSE ToStr(raw)

\* part_005: buildPublicContract
buildPublicContract(data) ==
  LET sig == Or(Get(data, "signals"), EmptyObj)
      decisionObj == normalizeDecision(data)
      ec == Get(sig, "evidence_confidence")
      lat == Get(data, "latency_ms")
  IN [t |-> "obj",
      schema_version |-> Or3(Get(Get(data, "contract"), "schema_version"),
                             Get(data, "schema_version"), S("2.0")),
      request_id |-> Or(Or3(Get(Get(data, "contract"), "request_id"),
                            Get(data, "request_id"),
                            Get(Get(data, "audit"), "event_id")), Null),
      decision |-> Or(decisionObj.action, Chars(cREVIEW)),
      readiness_signal |-> Coal(Coal(Get(data, "readiness_signal"), Get(data, "score")),
                                S("--")),
      verdict |-> Or(Get(data, "verdict"), S("")),
      policy_mode |-> Or3(Get(Get(data, "policy"), "mode"), Get(data, "policy_mode"),
                          POLICY_MODE),
      policy_version |-> Or3(Get(Get(data, "policy"), "version"),
                             Get(data, "policy_version"), S("")),
      policy_hash |-> Or3(Get(Get(data, "policy"), "hash"), Get(data, "policy_hash"), S("")),
      audit |-> [t |-> "obj",
                 event_id |-> Or3(Get(Get(data, "audit"), "event_id"),
                                  Get(data, "event_id"), S("")),
                 audit_fingerprint_sha256 |->
                   Or3(Get(Get(data, "audit"), "audit_fingerprint_sha256"),
                       Get(data, "audit_fingerprint_sha256"), S(""))],
      latency_ms |-> IF IsNumber(lat) THEN lat ELSE Null,
      volatility |-> StrUpper(Coal(Get(sig, "volatility"), S("STABLE"))),
      volatility_category |-> StrUpper(Coal(Get(sig, "volatility_category"), S("GENERAL"))),
      evidence_validation_status |-> Coal(Get(sig, "evidence_validation_status"),
                                          S("MISSING")),
      evidence_trust_tier |-> Coal(Get(sig, "evidence_trust_tier"), S("&mdash;")),
      evidence_confidence |-> IF IsNumber(ec) THEN ec ELSE Null,
      risk_flags |-> IF Get(sig, "risk_flags").t = "arr" THEN Get(sig, "risk_flags")
                     ELSE Arr(<<>>),
      guardrail |-> Coal(Get(sig, "guardrail"), Null),
      execution_boundary |-> Coal(Get(data, "execution_boundary"), Bool(FALSE)),
      execution_commit |-> Coal(Get(data, "execution_commit"),
                                [t |-> "obj", authorized |-> Bool(FALSE), action |-> Null,
                                 event_id |-> Null, policy_hash |-> Null,
                                 audit_fingerprint_sha256 |-> Null]),
      references |-> IF Get(data, "references").t = "arr" THEN Get(data, "references")
                     ELSE Arr(<<>>),
      explanation |-> Or(Get(data, "explanation"), S(""))]

\* `runtime gate &middot; server ${ms}ms`
ApiMetaText(ms) == Cat(<<S("runtime gate &middot; server "), ToStr(ms), S("ms")>>)
ApiMetaIdle == ApiMetaText(S("&mdash;"))

\* part_005 renderResponse: the text written to the result area
resultText005(data) ==
  LET pc == buildPublicContract(data)
      ms == IF IsNumber(pc.latency_ms) THEN pc.latency_ms ELSE S("&mdash;")
      safeDetails == [t |-> "obj",
                      contract |-> Or(Get(data, "contract"), Null),
                      decision |-> Or(Get(data, "decision"), Null),
                      policy |-> Or(Get(data, "policy"), Null),
                      audit |-> Or(Get(data, "audit"), Null)]
  IN Cat(<<S("Execution Decision Artifact (live) &middot; "), ApiMetaText(ms), S("\n"),
           safeJson(pc),
           S("\n\nValidation details, explanation & references\n"),
           safeJson([t |-> "obj",
                     explanation |-> pc.explanation,
                     references |-> pc.references,
                     signals |-> [t |-> "obj",
                                  volatility |-> pc.volatility,
                                  volatility_category |-> pc.volatility_category,
                                  evidence_validation_status |-> pc.evidence_validation_status,
                                  evidence_trust_tier |-> pc.evidence_trust_tier,
                                  evidence_confidence |-> pc.evidence_confidence,
                                  risk_flags |-> pc.risk_flags,
                                  guardrail |-> pc.guardrail],
                     meta |-> safeDetails])>>)

\* JSON.stringify(obj): the compact text of a value
JsonCompact(obj) == [t |-> "jsonc", v |-> obj]

\* part_005 copyCurl: the command copied for lastPayload and lastEndpointPath;
\* nothing is copied (an alert is shown) while lastPayload is null
copyCurl005(payload, path) ==
  IF ~Truthy(payload) THEN Undef
  ELSE Cat(<<S("curl -X POST \"https://trucite-backend.onrender.com"),
             Or(path, S("/api/score")),
             S("\" -H \"Content-Type: application/json\" -d '"),
             JsonCompact(payload), S("'")>>)

\* part_005 copyResponse: what goes to the clipboard for lastResponsePublic
copyText005(lastResponsePublic) == safeJson(lastResponsePublic)

\* ------------------------------------------------------------------ state
VARIABLES
  variant,           \* which script the page loads
  clicks,            \* number of clicks on VERIFY so far
  hs,                \* the invocations of the click handlers, in order
  ui,                \* the DOM elements the scripts write
  lastPayload,       \* module-level lastPayload, per IIFE
  lastResponse,      \* lastResponse / lastResponsePublic / lastResponseJson, per IIFE
  lastEndpointPath,  \* part_005
  timers,            \* pending gauge callbacks (setTimeout / requestAnimationFrame), FIFO
  fnA, fnB,          \* inputs of the function-level specification
  fnOut              \* its outputs

vars == <<variant, clicks, hs, ui, lastPayload, lastResponse, lastEndpointPath,
          timers, fnA, fnB, fnOut>>
machineVars == <<variant, clicks, hs, ui, lastPayload, lastResponse, lastEndpointPath,
                 timers>>
fnVars == <<fnA, fnB, fnOut>>

Variants == {"script", "p000", "p001", "p002", "p003", "p004", "p005", "p006",
             "p007", "p008"}

\* the click listeners of a variant, in registration order: script.js binds
\* onVerify (first IIFE, "s1") and scoreText (second IIFE, "s2") to the button
Kinds(v) == IF v = "script" THEN <<"s1", "s2">> ELSE <<v>>
Slot(k) == IF k = "s2" THEN 2 ELSE 1

CallVerifyKinds == {"s1", "s2", "p004"}
IIFEKinds == {"s1", "s2", "p004", "p005", "p006"}
TimeoutKinds == {"p005", "p006"}
GateKinds == {"s1", "s2", "p001", "p002", "p004", "p005", "p006", "p008"}

\* the value an element has from the page's markup, before any script wrote it
Html == [t |-> "html"]
G260 == ToStr(Num(DashTotal))

NoResp == [status |-> "none", body |-> Undef]
NoExc == [name |-> "none", message |-> Undef]
FetchErr == [name |-> "TypeError", message |-> S("Failed to fetch")]
AbortErr == [name |-> "AbortError", message |-> S("The user aborted a request.")]
ParseErr == [name |-> "SyntaxError", message |-> S("Unexpected token < in JSON")]
NullErr == [name |-> "TypeError", message |-> S("Cannot read properties of null")]
HttpErr(msg) == [name |-> "Error", message |-> msg]
\* String(e)
StringE(e) == IF e.name = "Error" THEN Cat(<<S("Error: "), e.message>>)
              ELSE Cat(<<S(e.name), S(": "), e.message>>)
IsAbort(e) == e.name = "AbortError"

\* ------------------------------------------------------------- inputs
Texts == {<<>>, <<" ">>, <<"a">>, <<" ", "a">>, <<"a", " ">>, <<" ", "a", " ">>}
Evidences == {<<>>, <<"e">>, <<" ">>}

\* the JSON bodies the backend answers with
DataFull == [t |-> "obj", score |-> Num(90), verdict |-> S("Well-Supported"),
             decision |-> [t |-> "obj", action |-> Chars(cBLOCK), reason |-> S("policy")],
             latency_ms |-> Num(12)]
DataStrDecision == [t |-> "obj", score |-> Num(90), decision |-> Chars(cBLOCK)]
DataErrorCode == [t |-> "obj", error_code |-> S("E_POLICY"), message |-> S("backend says no")]
DataTextScore == [t |-> "obj", score |-> S("high")]
Datas == {Null, EmptyObj, DataFull, DataStrDecision, DataErrorCode, DataTextScore}

J(d) == [t |-> "jsonbody", v |-> d]
PlainBody == S("upstream failure")
OkBodies == {HtmlBody} \cup {J(d) : d \in Datas}
ErrBodies == {S(""), PlainBody, HtmlBody}
ErrStatuses == {"404", "500"}

\* ------------------------------------------------------------- payloads
Payload(k, text, ev) ==
  CASE k \in IIFEKinds \cup {"p008"} ->
         [t |-> "obj", text |-> Chars(text), evidence |-> Or(Chars(ev), Chars(<<>>)),
          policy_mode |-> S("enterprise")]
    [] k \in {"p001", "p002"} ->
         [t |-> "obj", text |-> Chars(text), evidence |-> Chars(ev)]
    [] k = "p007" ->
         [t |-> "obj", text |-> Chars(text), evidence |-> Or(Chars(ev), Null)]
    [] OTHER -> [t |-> "obj", text |-> Chars(text)]

FirstPath(k) ==
  CASE k \in CallVerifyKinds -> "/verify"
    [] k = "p000" -> "/api/score"
    [] k = "p001" -> "/score"
    [] k = "p003" -> "https://trucite-backend.onrender.com/verify"
    [] k = "p005" -> "/api/score"
    [] k = "p006" -> "/api/evaluate"
    [] OTHER -> "/verify"

\* the request a handler sends after a failed one: callVerify's absolute URL,
\* part_005's second path
NextPath(k) == IF k = "p005" THEN "/api/runtime" ELSE "origin/verify"

\* ------------------------------------------------------------ UI painting
\* A handler works on st = [ui, lr, lep, tm]: the DOM, the IIFE's lastResponse
\* slots, lastEndpointPath and the pending gauge callbacks.

\* a pending state that only blanks the score
PendingUIScoreOnly(k, st) == [st EXCEPT !.ui.score = S("--")]

\* setPendingUI of the IIFE variants; the reset block of the others
PendingUI(k, st) ==
  CASE k = "s1" ->
         [st EXCEPT !.ui.score = S("--"), !.ui.verdict = S("Score pending..."),
                    !.ui.action = Chars(cDash), !.ui.reason = S("Awaiting verification..."),
                    !.ui.result = S("")]
    [] k = "p004" ->
         [st EXCEPT !.ui.score = S("--"), !.ui.verdict = S("Score pending..."),
                    !.ui.action = Chars(cDash), !.ui.reason = S("Awaiting verification..."),
                    !.ui.result = S(""), !.ui.gauge = ToStr(updateGauge(Num(0)))]
    [] k = "s2" ->
         [st EXCEPT !.ui.score = S("--"), !.ui.verdict = S("Score pending&hellip;"),
                    !.ui.action = Chars(cDash),
                    !.ui.reason = S("Awaiting verification&hellip;"),
                    !.ui.result = S(""), !.ui.gauge = ToStr(updateGauge(Num(0)))]
    [] k = "p005" ->
         [st EXCEPT !.ui.score = S("--"), !.ui.verdict = S("Signal pending&hellip;"),
                    !.ui.action = Chars(cDash),
                    !.ui.reason = S("Awaiting evaluation&hellip;"),
                    !.ui.gauge = G260, !.ui.result = S(""), !.ui.meta = ApiMetaIdle,
                    !.tm = Append(st.tm, updateGauge(Num(0)))]
    [] k = "p006" ->
         [st EXCEPT !.ui.score = S("--"), !.ui.verdict = S("Evaluation pending&hellip;"),
                    !.ui.action = Chars(cDash),
                    !.ui.reason = S("Awaiting evaluation&hellip;"),
                    !.ui.gauge = G260, !.ui.result = S(""), !.ui.meta = ApiMetaIdle,
                    !.tm = Append(st.tm, updateGauge(Num(0)))]
    [] k = "p000" ->
         [st EXCEPT !.ui.score = S("--"), !.ui.verdict = S("Scoring&hellip;"),
                    !.ui.result = S("Contacting TruCite verification layer&hellip;"),
                    !.ui.gauge = G260]
    [] k \in {"p001", "p002", "p008"} ->
         [st EXCEPT !.ui.status = S("Verifying&hellip;"),
                    !.ui.gauge = ToStr(setGauge(Num(0)).offset),
                    !.ui.score = S("--"), !.ui.verdict = S("Scoring&hellip;"),
                    !.ui.action = Chars(cDash),
                    !.ui.reason = S("Awaiting verification&hellip;"),
                    !.ui.result = S("")]
    [] k = "p003" ->
         [st EXCEPT !.ui.result = S("Analyzing&hellip;"), !.ui.score = S("--"),
                    !.ui.verdict = S("Calling engine&hellip;"), !.ui.gauge = G260]
    [] OTHER -> st

\* part_007: the reset block, which depends on the evidence entered
PendingUI007(st, ev) ==
  [st EXCEPT !.ui.gauge = ToStr(setGauge007(Num(0)).offset),
             !.ui.score = setGauge007(Num(0)).display,
             !.ui.verdict = S("Score pending&hellip;"),
             !.ui.status = IF ev # <<>>
                           THEN S("Evidence detected. Submitting claim + evidence&hellip;")
                           ELSE S("No evidence provided. Submitting claim&hellip;"),
             !.ui.result = S("Submitting&hellip;")]

\* the branch taken when the trimmed text is empty
EmptyClickUI(k, st) ==
  CASE k = "p000" ->
         [st EXCEPT !.ui.result = S("Paste some AI or agent output, then tap VERIFY.")]
    [] k \in {"p001", "p002", "p008"} ->
         [st EXCEPT !.ui.status = S("Please paste some AI output to verify.")]
    [] k = "p003" ->
         [st EXCEPT !.ui.result = S("Paste AI output above, then tap VERIFY."),
                    !.ui.score = S("--"), !.ui.verdict = S("Score pending&hellip;"),
                    !.ui.gauge = G260]
    [] k = "p007" ->
         [st EXCEPT !.ui.verdict = S("Paste AI output to verify."), !.ui.result = S(""),
                    !.ui.status =
                      S("Nothing submitted. Paste AI output above, then tap VERIFY.")]
    [] OTHER -> st

\* setErrorUI(msg, details) of the IIFE variants
setErrorUI(k, st, msg, details) ==
  CASE k \in {"s1", "p004"} ->
         [st EXCEPT !.ui.score = S("--"), !.ui.verdict = S("Error"),
                    !.ui.action = Chars(cREVIEW),
                    !.ui.reason = Or(msg, S("Backend unavailable or route mismatch.")),
                    !.ui.result = IF Truthy(details)
                                  THEN Cat(<<S("Backend error: "), details>>)
                                  ELSE Or(msg, S("Backend error"))]
    [] k = "s2" ->
         [st EXCEPT !.ui.score = S("--"), !.ui.verdict = S("Error"),
                    !.ui.action = Chars(cREVIEW),
                    !.ui.reason = Or(msg, S("Backend unavailable or route mismatch.")),
                    !.ui.result = IF Truthy(details)
                                  THEN Cat(<<S("Backend error:\n"), details>>)
                                  ELSE Or(msg, S("Backend error")),
                    !.ui.gauge = ToStr(updateGauge(Num(0)))]
    [] k = "p005" ->
         LET dbg == IF SHOW_DEBUG THEN stripHtml(details) ELSE S("") IN
         [st EXCEPT !.ui.score = S("--"), !.ui.verdict = S("Error"),
                    !.ui.action = Chars(cREVIEW),
                    !.ui.reason = Or(msg, S("Backend error.")),
                    !.ui.meta = ApiMetaIdle,
                    !.ui.result = IF Truthy(dbg)
                                  THEN Cat(<<S("Backend error:\n"), dbg>>)
                                  ELSE Or(msg, S("Backend error."))]
    [] OTHER ->
         [st EXCEPT !.ui.score = S("--"), !.ui.verdict = S("Error"),
                    !.ui.action = Chars(cREVIEW),
                    !.ui.reason = Or(msg, S("Backend error.")),
                    !.ui.meta = ApiMetaIdle,
                    !.ui.result = IF Truthy(details)
                                  THEN Cat(<<S("Backend error:\n"), details>>)
                                  ELSE Or(msg, S("Backend error."))]

MsgScore == S("could not score. Check backend route and try again.")
MsgEvaluate == S("could not evaluate. Check backend route and try again.")
MsgTimeout == S("Request timed out. Backend may be waking up. Try again.")

\* a catch block that writes the verdict and leaves the gate alone
CatchUINoGate(k, st, e) == [st EXCEPT !.ui.verdict = S("Error")]

\* the catch block of each handler, for the exception e
CatchUI(k, st, e) ==
  CASE k \in CallVerifyKinds -> setErrorUI(k, st, MsgScore, StringE(e))
    [] k = "p005" ->
         setErrorUI(k, st,
                    IF IsAbort(e) THEN MsgTimeout
                    ELSE S("Request failed. Network or backend unavailable."),
                    StringE(e))
    [] k = "p006" ->
         setErrorUI(k, st,
                    IF IsAbort(e) THEN MsgTimeout
                    ELSE S("could not evaluate. Network or backend unavailable."),
                    StringE(e))
    [] k = "p000" ->
         [st EXCEPT !.ui.score = S("--"), !.ui.verdict = S("Backend connection failed"),
                    !.ui.result = Cat(<<S("POST failed.\n\nEndpoint: /api/score\n\nError: "),
                                        Or(e.message, StringE(e))>>)]
    [] k \in {"p001", "p002", "p008"} ->
         [st EXCEPT !.ui.status =
                      S("Error: could not score. Check backend route and try again."),
                    !.ui.verdict = S("Error"),
                    !.ui.action = Chars(cREVIEW),
                    !.ui.reason = S("Backend unavailable or route mismatch."),
                    !.ui.result = ToStr(Or(e.message, StringE(e)))]
    [] k = "p003" ->
         [st EXCEPT !.ui.verdict = S("Error"), !.ui.score = S("--"), !.ui.gauge = G260,
                    !.ui.result = Cat(<<S("Error communicating with TruCite engine:\n"),
                                        e.message>>)]
    [] OTHER ->
         [st EXCEPT !.ui.verdict = S("Engine error"),
                    !.ui.status = S("Error communicating with TruCite engine."),
                    !.ui.result = StringE(e)]

\* ------------------------------------------------------- success rendering
\* Each Render gives [st |-> the state it leaves, exc |-> the exception it
\* throws, NoExc when it returns normally]. evid is the click's trimmed evidence.

\* script.js first IIFE: renderResponse (its updateGauge rotates the gauge
\* and leaves stroke-dashoffset alone)
Render_s1(st, data) ==
  LET score == Coal(Get(data, "score"), S("--")) IN
  [st |-> [st EXCEPT !.lr[1] = data,
                     !.ui.score = ToStr(score),
                     !.ui.verdict = ToStr(Or(Get(data, "verdict"), S(""))),
                     !.ui.action = ToStr(Or(Get(Get(data, "decision"), "action"),
                                            Chars(cREVIEW))),
                     !.ui.reason = ToStr(Or(Get(Get(data, "decision"), "reason"), S(""))),
                     !.ui.result = safeJson(data)],
   exc |-> NoExc]

\* script.js second IIFE and part_004: renderResponse
Render_iife(k, st, data) ==
  LET score == Coal(Get(data, "score"), S("--")) IN
  [st |-> [st EXCEPT !.lr[Slot(k)] = data,
                     !.ui.score = ToStr(score),
                     !.ui.verdict = ToStr(Or(Get(data, "verdict"), S(""))),
                     !.ui.gauge = ToStr(updateGauge(NumberOr0(score))),
                     !.ui.action = ToStr(Or(Get(Get(data, "decision"), "action"),
                                            Chars(cREVIEW))),
                     !.ui.reason = ToStr(Or(Get(Get(data, "decision"), "reason"), S(""))),
                     !.ui.result = safeJson(data)],
   exc |-> NoExc]

\* part_005: renderResponse
Render_p005(st, data) ==
  LET pc == buildPublicContract(data)
      readiness == Coal(pc.readiness_signal, S("--"))
      d == normalizeDecision(data)
      ms == IF IsNumber(pc.latency_ms) THEN pc.latency_ms ELSE S("&mdash;")
  IN
  [st |-> [st EXCEPT !.lr[1] = pc,
                     !.ui.score = ToStr(readiness),
                     !.ui.verdict = ToStr(Or(pc.verdict, S(""))),
                     !.ui.gauge = G260,
                     !.tm = Append(st.tm, updateGauge(readiness)),
                     !.ui.action = UpperAction(d.action),
                     !.ui.reason = ToStr(Or(d.reason, S(""))),
                     !.ui.meta = ApiMetaText(ms),
                     !.ui.result = resultText005(data)],
   exc |-> NoExc]

\* part_006: buildDecisionPayload
buildDecisionPayload(data) ==
  LET sig == Or(Get(data, "signals"), EmptyObj)
      lat == Get(data, "latency_ms")
  IN [t |-> "obj",
      schema_version |-> Or3(Get(data, "schema_version"),
                             Get(Get(data, "contract"), "schema_version"), S("2.0")),
      request_id |-> Or(Or(Or3(Get(data, "request_id"),
                               Get(Get(data, "contract"), "request_id"),
                               Get(data, "event_id")),
                           Get(Get(data, "audit"), "event_id")), Null),
      decision |-> Or(normalizeDecision(data).action, Chars(cREVIEW)),
      readiness_signal |-> Coal(Coal(Get(data, "readiness_signal"), Get(data, "score")),
                                S("--")),
      verdict |-> Or(Get(data, "verdict"), S("")),
      policy_mode |-> Or3(Get(data, "policy_mode"), Get(Get(data, "policy"), "mode"),
                          POLICY_MODE),
      policy_version |-> Or3(Get(data, "policy_version"),
                             Get(Get(data, "policy"), "version"), S("")),
      policy_hash |-> Or3(Get(data, "policy_hash"), Get(Get(data, "policy"), "hash"), S("")),
      event_id |-> Or3(Get(data, "event_id"), Get(Get(data, "audit"), "event_id"), S("")),
      audit_fingerprint_sha256 |->
        Or(Or3(Get(Get(data, "audit_fingerprint"), "sha256"),
               Get(data, "audit_fingerprint_sha256"),
               Get(Get(data, "audit"), "audit_fingerprint_sha256")), S("")),
      latency_ms |-> IF IsNumber(lat) THEN lat ELSE Null,
      volatility |-> Or3(Get(sig, "volatility"), Get(data, "volatility"), S("&mdash;")),
      volatility_category |-> Or3(Get(sig, "volatility_category"),
                                  Get(data, "volatility_category"), S("")),
      evidence_validation_status |-> Or3(Get(sig, "evidence_validation_status"),
                                         Get(data, "evidence_validation_status"),
                                         S("&mdash;")),
      evidence_trust_tier |-> Or3(Get(sig, "evidence_trust_tier"),
                                  Get(data, "evidence_trust_tier"), S("&mdash;")),
      evidence_confidence |-> Coal(Coal(Get(sig, "evidence_confidence"),
                                        Get(data, "evidence_confidence")), Null),
      risk_flags |-> Or(Get(sig, "risk_flags"), Arr(<<>>)),
      guardrail |-> Coal(Get(sig, "guardrail"), Null),
      execution_boundary |-> Coal(Get(data, "execution_boundary"), Bool(FALSE)),
      execution_commit |-> Coal(Get(data, "execution_commit"), Null)]

\* part_006: renderResponse. `data.execution_commit` is read without ?. and
\* throws a TypeError on null, after the score, verdict and gauge were written.
Render_p006(st, data) ==
  LET readiness == Coal(Coal(Get(data, "readiness_signal"), Get(data, "score")), S("--"))
      d == normalizeDecision(data)
      lat == Get(data, "latency_ms")
      ms == IF IsNumber(lat) THEN lat ELSE S("&mdash;")
      upto == [st EXCEPT !.lr[1] = data,
                         !.ui.score = ToStr(readiness),
                         !.ui.verdict = ToStr(Or(Get(data, "verdict"), S(""))),
                         !.ui.gauge = G260,
                         !.tm = Append(st.tm, updateGauge(readiness))]
  IN
  IF Nullish(data) THEN [st |-> upto, exc |-> NullErr]
  ELSE
  [st |-> [upto EXCEPT !.ui.action = UpperAction(d.action),
                       !.ui.reason = ToStr(Or(d.reason, S(""))),
                       !.ui.meta = ApiMetaText(ms),
                       !.ui.result =
                         Cat(<<S("Execution Decision Artifact (live) &middot; server "),
                               ToStr(ms), S("ms\n"), safeJson(buildDecisionPayload(data)),
                               S("\n\nValidation details, explanation & references\n"),
                               safeJson(data)>>)],
   exc |-> NoExc]

\* part_000: the success path of scoreText; `data.score` throws on null
Render_p000(st, data) ==
  IF Nullish(data) THEN [st |-> st, exc |-> NullErr]
  ELSE
  LET score == score000(data) IN
  [st |-> [st EXCEPT !.ui.score = ToStr(score),
                     !.ui.verdict = Or(Get(data, "verdict"), verdictFromScore(score)),
                     !.tm = Append(st.tm, gauge000(data)),
                     !.ui.result = safeJson(data)],
   exc |-> NoExc]

EvidenceStatus(evid) ==
  IF evid # <<>>
  THEN S("Evidence provided &mdash; TruCite will evaluate relevance and risk posture.")
  ELSE S("Tip: Provide evidence (URL/DOI/PMID) to reduce caps on high-liability numeric claims.")

\* part_001: the success path of scoreText
Render_p001(st, data, evid) ==
  IF Nullish(data) THEN [st |-> st, exc |-> NullErr]
  ELSE
  LET score == Coal(Coal(Coal(Coal(Coal(Get(data, "truth_score"), Get(data, "score")),
                                   Get(data, "reliability_score")),
                              Get(data, "truthScore")),
                         Get(Get(data, "result"), "truth_score")), Num(0))
      verdict == Coal(Coal(Coal(Coal(Get(data, "verdict"), Get(data, "label")),
                                Get(Get(data, "result"), "verdict")),
                           Get(Get(data, "result"), "label")), Null)
      gate == setDecisionGate(data, score)
  IN
  [st |-> [st EXCEPT !.ui.gauge = ToStr(setGauge(score).offset),
                     !.ui.score = ToStr(MathRound(NumberOr0(score))),
                     !.ui.verdict = setVerdictText(score, verdict),
                     !.ui.action = ToStr(gate.action),
                     !.ui.reason = ToStr(gate.reason),
                     !.ui.result = safeJson(data),
                     !.ui.status = EvidenceStatus(evid)],
   exc |-> NoExc]

\* part_002 and part_008: the success path of scoreText; part_008 stores
\* lastResponseJson before it reads the score
Render_p002(k, st, data, evid) ==
  LET st0 == IF k = "p008" THEN [st EXCEPT !.lr[1] = data] ELSE st IN
  IF Nullish(data) THEN [st |-> st0, exc |-> NullErr]
  ELSE
  LET score == Coal(Coal(Coal(Coal(Coal(Coal(Get(data, "score"), Get(data, "truth_score")),
                                        Get(data, "reliability_score")),
                                   Get(data, "truthScore")),
                              Get(Get(data, "result"), "score")),
                         Get(Get(data, "result"), "truth_score")), Num(0))
      verdict == Coal(Coal(Coal(Coal(Get(data, "verdict"), Get(data, "label")),
                                Get(Get(data, "result"), "verdict")),
                           Get(Get(data, "result"), "label")), Null)
      gate == setDecisionGateFromBackend(data, score)
  IN
  [st |-> [st0 EXCEPT !.ui.gauge = ToStr(setGauge(score).offset),
                      !.ui.score = ToStr(MathRound(NumberOr0(score))),
                      !.ui.verdict = setVerdictText(score, verdict),
                      !.ui.action = ToStr(gate.action),
                      !.ui.reason = ToStr(gate.reason),
                      !.ui.result = safeJson(data),
                      !.ui.status = EvidenceStatus(evid)],
   exc |-> NoExc]

\* part_003: the success path of scoreText
Render_p003(st, data) ==
  [st |-> [st EXCEPT !.ui.score = ToStr(score003(data)),
                     !.ui.verdict = ToStr(Coal(Coal(Get(data, "verdict"),
                                                    FirstClaim(data, "verdict")),
                                               S("&mdash;"))),
                     !.ui.gauge = ToStr(gauge003(data)),
                     !.ui.result = safeJson(data)],
   exc |-> NoExc]

\* part_007: the success path of scoreText
Render_p007(st, data) ==
  IF Nullish(data) THEN [st |-> st, exc |-> NullErr]
  ELSE
  LET score == score007(data)
      ev == Get(data, "evidence")
  IN
  [st |-> [st EXCEPT !.ui.gauge = ToStr(setGauge007(score).offset),
                     !.ui.score = setGauge007(score).display,
                     !.ui.verdict = Or(Or(Get(data, "verdict"),
                                          S("Unclear / needs verification")),
                                       S("Score pending&hellip;")),
                     !.ui.status =
                       IF Truthy(Get(ev, "provided"))
                       THEN Cat(<<S("Evidence detected ("),
                                  Bool(Truthy(Get(Get(ev, "signals"), "has_url"))),
                                  Bool(Truthy(Get(Get(ev, "signals"), "has_pmid"))),
                                  Bool(Truthy(Get(Get(ev, "signals"), "has_doi"))),
                                  S("). Note: MVP detects evidence presence; enterprise mode validates relevance.")>>)
                       ELSE S("No evidence detected. High-liability numeric claims may be capped."),
                     !.ui.result = safeJson(data)],
   exc |-> NoExc]

Render(k, st, data, evid) ==
  CASE k = "s1" -> Render_s1(st, data)
    [] k \in {"s2", "p004"} -> Render_iife(k, st, data)
    [] k = "p005" -> Render_p005(st, data)
    [] k = "p006" -> Render_p006(st, data)
    [] k = "p000" -> Render_p000(st, data)
    [] k = "p001" -> Render_p001(st, data, evid)
    [] k \in {"p002", "p008"} -> Render_p002(k, st, data, evid)
    [] k = "p003" -> Render_p003(st, data)
    [] OTHER -> Render_p007(st, data)

\* ------------------------------------------------------------ the machine
\* the state the page is in once the script has run
InitUI(v) ==
  LET html == [score |-> Html, verdict |-> Html, action |-> Html, reason |-> Html,
               result |-> Html, gauge |-> Html, status |-> Html, meta |-> Html]
      st0 == [ui |-> html, lr |-> [i \in 1..2 |-> Null], lep |-> Null, tm |-> <<>>]
  IN CASE v = "script" -> PendingUI("s2", PendingUI("s1", st0))
       [] v \in {"p004", "p005", "p006"} -> PendingUI(v, st0)
       [] OTHER -> st0

MachineInit(v) ==
  /\ variant = v
  /\ clicks = 0
  /\ hs = <<>>
  /\ ui = InitUI(v).ui
  /\ lastPayload = [i \in 1..2 |-> Null]
  /\ lastResponse = InitUI(v).lr
  /\ lastEndpointPath = Null
  /\ timers = InitUI(v).tm

FnNone == [fn |-> "none", a |-> Undef, b |-> Undef]

Init ==
  /\ \E v \in Variants : MachineInit(v)
  /\ fnA = Undef /\ fnB = Undef /\ fnOut = FnNone

Cur == [ui |-> ui, lr |-> lastResponse, lep |-> lastEndpointPath, tm |-> timers]

\* the synchronous part of one handler for a click, up to its first fetch
Prefix(k, w, c, text, ev) ==
  LET payload == Payload(k, text, ev)
      st1 == IF k = "p007" THEN PendingUI007(w.st, ev) ELSE PendingUI(k, w.st)
  IN [st |-> st1,
      lp |-> IF k \in IIFEKinds THEN [w.lp EXCEPT ![Slot(k)] = payload] ELSE w.lp,
      hs |-> Append(w.hs, [click |-> c, k |-> k, pc |-> "fetch", payload |-> payload,
                           reqs |-> <<[path |-> FirstPath(k), out |-> "pending"]>>,
                           resp |-> NoResp, result |-> "pending", cause |-> "none",
                           fin |-> 0])]

\* a listener that stores the payload before it looks at the text
ListenerSavesPayload(k, w, c, text, ev) ==
  IF text = <<>>
  THEN [w EXCEPT !.st = EmptyClickUI(k, w.st), !.lp[Slot(k)] = Payload(k, text, ev)]
  ELSE Prefix(k, w, c, text, ev)

\* one listener run for a click: the early return on empty text, or the prefix
Listener(k, w, c, text, ev) ==
  IF text = <<>> THEN [w EXCEPT !.st = EmptyClickUI(k, w.st)]
  ELSE Prefix(k, w, c, text, ev)

\* a click on VERIFY with the given contents of the text and evidence boxes:
\* every registered listener runs, in registration order
Click(rawText, rawEv) ==
  /\ clicks < MaxClicks
  /\ Trim(rawText) # <<>> => Len(hs) + Len(Kinds(variant)) <= MaxHandlers
  /\ LET text == Trim(rawText)
         ev == Trim(rawEv)
         ks == Kinds(variant)
         w0 == [st |-> Cur, lp |-> lastPayload, hs |-> hs]
         w1 == Listener(ks[1], w0, clicks + 1, text, ev)
         w2 == IF Len(ks) = 2 THEN Listener(ks[2], w1, clicks + 1, text, ev) ELSE w1
     IN /\ ui' = w2.st.ui
        /\ lastResponse' = w2.st.lr
        /\ lastEndpointPath' = w2.st.lep
        /\ timers' = w2.st.tm
        /\ lastPayload' = w2.lp
        /\ hs' = w2.hs
  /\ clicks' = clicks + 1
  /\ UNCHANGED <<variant, fnVars>>

SetOut(reqs, out) == [reqs EXCEPT ![Len(reqs)].out = out]

NDone == Cardinality({g \in DOMAIN hs : hs[g].pc = "done"})

\* the handler ends: its last writes are in st; fin numbers the handlers in
\* the order they end
Finish(h, st, out, result, cause) ==
  /\ hs' = [hs EXCEPT ![h].pc = "done", ![h].reqs = SetOut(@, out), ![h].resp = NoResp,
                      ![h].result = result, ![h].cause = cause, ![h].fin = NDone + 1]
  /\ ui' = st.ui
  /\ lastResponse' = st.lr
  /\ lastEndpointPath' = st.lep
  /\ timers' = st.tm
  /\ UNCHANGED <<variant, clicks, lastPayload, fnVars>>

\* the handler sends its next request
SendNext(h, out) ==
  /\ hs' = [hs EXCEPT ![h].pc = "fetch", ![h].resp = NoResp,
                      ![h].reqs = Append(SetOut(@, out),
                                         [path |-> NextPath(hs[h].k), out |-> "pending"])]
  /\ UNCHANGED <<variant, clicks, ui, lastPayload, lastResponse, lastEndpointPath,
                 timers, fnVars>>

\* a callVerify that tries again after every rejected fetch
callVerifyRetriesAlways(k, reqs) == k \in CallVerifyKinds

\* callVerify: after the first fetch rejected (.catch(() => null)) the
\* absolute URL is tried
callVerifyRetries(k, reqs) == k \in CallVerifyKinds /\ Len(reqs) = 1

\* part_005 postToFirstAvailableEndpoint: the catch block of the loop body
\* records the error and the for loop goes on to the next path
p005NextOnError(k, reqs) == k = "p005" /\ Len(reqs) = 1

\* part_005 postToFirstAvailableEndpoint: `if (res.status === 404) continue`
p005NextOnStatus(k, reqs, status) == k = "p005" /\ Len(reqs) = 1 /\ status = "404"

\* the awaited fetch rejects with e (a network error, or the abort of
\* fetchWithTimeout)
FetchFail(h, e, out) ==
  LET k == hs[h].k IN
  IF callVerifyRetries(k, hs[h].reqs) \/ p005NextOnError(k, hs[h].reqs)
  THEN SendNext(h, out)
  ELSE IF k = "p005"
  THEN Finish(h, setErrorUI(k, Cur, MsgEvaluate, Or(StringE(e), S("No supported endpoint found."))),
              out, "error", out)
  ELSE Finish(h, CatchUI(k, Cur, e), out, "error", out)

FetchReject(h) ==
  /\ hs[h].pc = "fetch"
  /\ FetchFail(h, FetchErr, "reject")

\* fetchWithTimeout: the timer aborts the request after TIMEOUT_MS
FetchAbort(h) ==
  /\ hs[h].pc = "fetch"
  /\ hs[h].k \in TimeoutKinds
  /\ FetchFail(h, AbortErr, "abort")

\* the awaited fetch resolves with a response; the handler goes on to read it
FetchRespond(h, status, body) ==
  /\ hs[h].pc = "fetch"
  /\ hs' = [hs EXCEPT ![h].pc = "body", ![h].resp = [status |-> status, body |-> body],
                      ![h].reqs = SetOut(@, status)]
  /\ UNCHANGED <<variant, clicks, ui, lastPayload, lastResponse, lastEndpointPath,
                 timers, fnVars>>

HttpText(status) == Cat(<<S("HTTP "), S(status)>>)

\* the rest of the handler once res.text() / res.json() has settled, for a
\* response whose status is not ok
BodyNotOk(h, k, status, body) ==
  CASE k \in CallVerifyKinds ->
         Finish(h, setErrorUI(k, Cur, MsgScore, Or(body, S(status))), status,
                "error", "status")
    [] k = "p005" ->
         IF p005NextOnStatus(k, hs[h].reqs, status) THEN SendNext(h, status)
         ELSE Finish(h, setErrorUI(k, Cur, MsgEvaluate, Or(stripHtml(body), HttpText(status))),
                     status, "error", "status")
    [] k = "p006" ->
         Finish(h, setErrorUI(k, Cur, MsgEvaluate, Or(body, HttpText(status))), status,
                "error", "status")
    [] k = "p007" ->
         Finish(h, [Cur EXCEPT !.ui.verdict = S("Engine error"),
                               !.ui.status =
                                 Cat(<<S("Error communicating with TruCite engine: "),
                                       HttpText(status)>>),
                               !.ui.result = Or(body, HttpText(status))],
                status, "error", "status")
    [] k \in {"p001", "p002", "p008"} ->
         Finish(h, CatchUI(k, Cur, HttpErr(Cat(<<S("Backend error ("), S(status),
                                                 S("): "), body>>))),
                status, "error", "status")
    [] OTHER ->
         Finish(h, CatchUI(k, Cur, HttpErr(Cat(<<HttpText(status), S(": "), body>>))),
                status, "error", "status")

\* ... for an ok response whose body is no JSON
BodyUnparseable(h, k, body) ==
  CASE k = "p005" ->
         Finish(h, setErrorUI(k, Cur, MsgEvaluate, StringE(ParseErr)), "ok", "error", "parse")
    [] k = "p006" ->
         Finish(h, setErrorUI(k, Cur, S("could not parse response JSON."), StringE(ParseErr)),
                "ok", "error", "parse")
    [] k = "p003" ->
         Finish(h, CatchUI(k, Cur, HttpErr(Cat(<<S("Engine returned non-JSON: "), body>>))),
                "ok", "error", "parse")
    [] OTHER -> Finish(h, CatchUI(k, Cur, ParseErr), "ok", "error", "parse")

\* ... for an ok response with the JSON value data
BodyJson(h, k, data) ==
  LET st0 == IF k = "p005"
             THEN [Cur EXCEPT !.lep = S(hs[h].reqs[Len(hs[h].reqs)].path)]
             ELSE Cur
      r == Render(k, st0, data, CharsOf(Get(hs[h].payload, "evidence")))
  IN IF k \in {"p005", "p006"} /\ Truthy(Get(data, "error_code"))
     THEN Finish(h, setErrorUI(k, st0, Or(Get(data, "message"), S("Request error.")),
                               IF k = "p005" /\ ~SHOW_DEBUG THEN S("") ELSE safeJson(data)),
                 "ok", "error", "error_code")
     ELSE IF r.exc # NoExc
     THEN Finish(h, CatchUI(k, r.st, r.exc), "ok", "error", "throw")
     ELSE Finish(h, r.st, "ok", "success", "none")

BodyDone(h) ==
  /\ hs[h].pc = "body"
  /\ LET k == hs[h].k
         status == hs[h].resp.status
         body == hs[h].resp.body
     IN IF status # "ok" THEN BodyNotOk(h, k, status, body)
        ELSE IF body.t # "jsonbody" THEN BodyUnparseable(h, k, body)
        ELSE BodyJson(h, k, body.v)

\* a pending gauge callback runs: part_000's setTimeout(40), the nested
\* requestAnimationFrame of part_005 / part_006
TimerFire ==
  /\ timers # <<>>
  /\ ui' = [ui EXCEPT !.gauge = ToStr(Head(timers))]
  /\ timers' = Tail(timers)
  /\ UNCHANGED <<variant, clicks, hs, lastPayload, lastResponse, lastEndpointPath, fnVars>>

Next ==
  \/ \E rawText \in Texts, rawEv \in Evidences : Click(rawText, rawEv)
  \/ \E h \in DOMAIN hs : FetchReject(h)
  \/ \E h \in DOMAIN hs : FetchAbort(h)
  \/ \E h \in DOMAIN hs, body \in OkBodies : FetchRespond(h, "ok", body)
  \/ \E h \in DOMAIN hs, status \in ErrStatuses, body \in ErrBodies :
       FetchRespond(h, status, body)
  \/ \E h \in DOMAIN hs : BodyDone(h)
  \/ TimerFire

Spec == Init /\ [][Next]_vars

\* ------------------------------------------- function-level specification
\* part_005's renderResponse and copyResponse applied to two backend
\* responses, each on a freshly loaded page.
DataInternal == [DataFull EXCEPT !.decision =
                   [t |-> "obj", action |-> Chars(cBLOCK), reason |-> S("policy"),
                    matched_rule |-> S("rule-17")]]
DataRules == [t |-> "obj", score |-> Num(90), verdict |-> S("Well-Supported"),
              decision |-> [t |-> "obj", action |-> Chars(cBLOCK), reason |-> S("policy")],
              latency_ms |-> Num(12),
              signals |-> [t |-> "obj", volatility |-> Chars(<<"l", "o", "w">>),
                           rules_fired |-> Arr(<<S("rule-17")>>)]]
DataRulesOther == [DataRules EXCEPT !.signals.rules_fired = Arr(<<S("rule-4")>>)]
DataPolicy == [t |-> "obj", readiness_signal |-> Num(50),
               policy |-> [t |-> "obj", mode |-> S("health"), version |-> S("3")],
               audit |-> [t |-> "obj", event_id |-> S("ev-1")]]
DataPolicyFlat == [t |-> "obj", readiness_signal |-> Num(50), policy_mode |-> S("health"),
                   policy_version |-> S("3"), event_id |-> S("ev-1"),
                   request_id |-> S("ev-1")]
DataAuditExtra == [DataPolicy EXCEPT !.audit =
                     [t |-> "obj", event_id |-> S("ev-1"), scorer_build |-> S("b42")]]
DataContract == [t |-> "obj", score |-> Num(0),
                 contract |-> [t |-> "obj", schema_version |-> S("2.1"),
                               request_id |-> S("r-1")]]
DataContractExtra == [DataContract EXCEPT !.contract =
                        [t |-> "obj", schema_version |-> S("2.1"), request_id |-> S("r-1"),
                         heuristics |-> S("h")]]
FnDatas == Datas \cup {DataInternal, DataRules, DataRulesOther, DataPolicy, DataPolicyFlat,
                       DataAuditExtra, DataContract, DataContractExtra}

\* what the page shows and what copyResponse copies after rendering data
Shown005(data) ==
  LET st == Render_p005(InitUI("p005"), data).st IN
  [pub |-> st.lr[1], text |-> st.ui.result, copy |-> copyText005(st.lr[1])]

FnInit ==
  /\ MachineInit("p005")
  /\ fnA \in FnDatas /\ fnB \in FnDatas
  /\ fnOut = FnNone

FnRender ==
  /\ fnOut.fn = "none"
  /\ fnOut' = [fn |-> "render", a |-> Shown005(fnA), b |-> Shown005(fnB)]
  /\ UNCHANGED <<machineVars, fnA, fnB>>

FnNext == FnRender

FnSpec == FnInit /\ [][FnNext]_vars

\* ------------------------------------------------------------ properties
\* handler h ends in this step
Ends(h) == hs[h].pc # "done" /\ hs'[h].pc = "done"
\* ... having rendered the JSON value data of an ok response
EndsRendered(h) == Ends(h) /\ hs'[h].result = "success"
DataOf(h) == hs[h].resp.body.v

\* C1: in script.js, the requests that stem from one click are never two in
\* flight at the same moment.
InFlight(c) == {h \in DOMAIN hs : hs[h].click = c /\ hs[h].pc = "fetch"}
C1_OneInFlightPerClick ==
  variant = "script" => \A c \in 1..clicks : Cardinality(InFlight(c)) <= 1

FailureCauses == {"reject", "abort", "status", "parse"}
BackendAction(data) ==
  LET dec == Get(data, "decision") IN
  IF dec.t = "obj" THEN Get(dec, "action") ELSE dec
C4_GateShowsBackendAction ==
  [][\A h \in DOMAIN hs :
       (EndsRendered(h) /\ hs[h].k \in {"p002", "p008"}
          /\ BackendAction(DataOf(h)) \in {Chars(cALLOW), Chars(cREVIEW), Chars(cBLOCK)})
         => ui'.action = BackendAction(DataOf(h))]_vars

\* C5: every request body has a trimmed non-empty text, and an evidence
\* field, when present, is a string.
C5_PayloadConforms ==
  \A h \in DOMAIN hs :
    LET p == hs[h].payload IN
    /\ p.text.t = "chars" /\ p.text.c # <<>> /\ Trim(p.text.c) = p.text.c
    /\ "evidence" \in DOMAIN p => p.evidence.t = "chars"

\* C6: the stroke-dashoffset written for a successful verification is
\* 260 - 260 * clamp(score, 0, 100) / 100, with a missing or non-numeric
\* score counted as 0.
ExpectedOffset(data) ==
  LET sc == Get(data, "score") IN
  IF sc.t = "num" THEN ToStr(Num(DashTotal - (DashTotal * Max2(0, Min2(100, sc.n))) \div 100))
  ELSE ToStr(Num(DashTotal))
\* the offset the handler wrote, or handed to its timer callback
WrittenOffset(k) ==
  IF k \in {"p000", "p005", "p006"} THEN ToStr(timers'[Len(timers')]) ELSE ui'.gauge
C6_OffsetInRange ==
  [][\A h \in DOMAIN hs :
       (EndsRendered(h) /\ hs[h].k # "s1")
         => WrittenOffset(hs[h].k) = ExpectedOffset(DataOf(h))]_vars

\* C7: in part_005 and part_006 an ok response with the body {} or null is
\* rendered with the defaults and does not end in the error state.
C7_EmptyBodyTolerated ==
  [][\A h \in DOMAIN hs :
       (Ends(h) /\ hs[h].k \in {"p005", "p006"} /\ hs[h].resp.status = "ok"
          /\ hs[h].resp.body \in {J(EmptyObj), J(Null)})
         => /\ hs'[h].result = "success"
            /\ ui'.score = S("--")
            /\ ui'.action = Chars(cREVIEW)
            /\ ui'.verdict = S("")]_vars

\* C8: part_005 requests /api/score first, and /api/runtime only after
\* /api/score answered 404.
C8_RuntimeOnlyAfter404 ==
  \A h \in DOMAIN hs :
    hs[h].k = "p005" =>
      /\ hs[h].reqs[1].path = "/api/score"
      /\ Len(hs[h].reqs) >= 2 => hs[h].reqs[1].out = "404"

\* C9: in part_000, when every handler has ended and the verification of the
\* latest click was the last to end and failed, the score reads "--" and the
\* gauge is empty.
LatestFailed ==
  /\ hs # <<>>
  /\ \A h \in DOMAIN hs : hs[h].pc = "done"
  /\ hs[Len(hs)].fin = Len(hs)
  /\ hs[Len(hs)].result = "error"
C9_NoScoreAfterFailure ==
  (variant = "p000" /\ LatestFailed) => (ui.score = S("--") /\ ui.gauge = G260)

\* C10: in part_005, two responses with equal public contracts give the
\* same result text and the same copied response.
C10_DependsOnlyOnContract ==
  (fnOut.fn = "render" /\ fnOut.a.pub = fnOut.b.pub)
    => (fnOut.a.text = fnOut.b.text /\ fnOut.a.copy = fnOut.b.copy)

\* C11: in part_005 with SHOW_DEBUG false, after a failed evaluation the
\* result area and the decision reason hold one of the client's fixed
\* messages, never text taken from the backend's response.
FixedMessages005 ==
  {MsgEvaluate, MsgTimeout, S("Request failed. Network or backend unavailable."),
   S("Request error."), S("Backend error.")}
C11_ErrorTextIsClientSide ==
  [][\A h \in DOMAIN hs :
       (Ends(h) /\ hs[h].k = "p005" /\ ~SHOW_DEBUG /\ hs'[h].result = "error")
         => (ui'.reason \in FixedMessages005 /\ ui'.result \in FixedMessages005)]_vars

\* C12: in part_005 and part_006, a handler that ends because its request
\* was aborted after TIMEOUT_MS leaves the error state with the timeout
\* message as decision reason.
C12_TimeoutMessage ==
  [][\A h \in DOMAIN hs :
       (Ends(h) /\ hs[h].k \in TimeoutKinds /\ hs'[h].cause = "abort")
         => (hs'[h].result = "error" /\ ui'.verdict = S("Error")
             /\ ui'.reason = MsgTimeout)]_vars

\* C13: in part_005, lastEndpointPath is null, "/api/score" or
\* "/api/runtime", is null until an evaluation succeeded, and changes only in
\* a step that renders a success.
EndpointPaths == {Null, S("/api/score"), S("/api/runtime")}
CurlPathFollows ==
  Truthy(lastPayload[1]) =>
    copyCurl005(lastPayload[1], lastEndpointPath).a[2] =
      (IF lastEndpointPath = Null THEN S("/api/score") ELSE lastEndpointPath)
C13_EndpointTracksSuccess ==
  [][variant = "p005" =>
       /\ lastEndpointPath \in EndpointPaths
       /\ lastEndpointPath' \in EndpointPaths
       /\ CurlPathFollows
       /\ lastEndpointPath' # lastEndpointPath =>
            \E h \in DOMAIN hs : EndsRendered(h)]_vars

\* C14: in the IIFE variants, once the handler of a later click has ended,
\* the handler of an earlier click that ends after it does not replace the
\* displayed result or lastResponse, so both stay with the most recent click,
\* whose payload lastPayload holds.
C14_LatestClickShown ==
  [][\A h \in DOMAIN hs :
       (Ends(h) /\ hs[h].k \in IIFEKinds
          /\ \E g \in DOMAIN hs : hs[g].click > hs[h].click /\ hs[g].pc = "done")
         => (ui'.result = ui.result /\ lastResponse' = lastResponse)]_vars

\* C15: a click while the trimmed text is empty sends no request and leaves
\* lastPayload, lastResponse and lastEndpointPath as they were.
C15_EmptyClickFrame ==
  [][\A rawText \in Texts, rawEv \in Evidences :
       (Trim(rawText) = <<>> /\ Click(rawText, rawEv))
         => /\ hs' = hs
            /\ lastPayload' = lastPayload
            /\ lastResponse' = lastResponse
            /\ lastEndpointPath' = lastEndpointPath]_vars

\* the first click was verified and rendered, the second click came with an
\* empty text and started no handler
C15_Witness ==
  /\ clicks = 2 /\ Len(hs) = Len(Kinds(variant))
  /\ \A h \in DOMAIN hs : hs[h].click = 1 /\ hs[h].pc = "done"
  /\ lastPayload[1] # Null /\ lastResponse[1] # Null

\* C16: in the IIFE variants the page shows the pending state from load until
\* the first click; an accepted click stores its payload in lastPayload, shows
\* the pending state and leaves its request in flight; a handler ends only
\* with all its requests settled, and between clicks the result area changes
\* only in a step that ends a handler.
IIFEVariants == {"script", "p004", "p005", "p006"}
PendingShown(u) ==
  u.score = S("--") /\ u.action = Chars(cDash) /\ u.result = S("") /\ u.gauge = G260
AcceptedClickStep ==
  \A rawText \in Texts, rawEv \in Evidences :
    (Trim(rawText) # <<>> /\ Click(rawText, rawEv))
      => /\ PendingShown(ui')
         /\ Len(hs') = Len(hs) + Len(Kinds(variant))
         /\ \A h \in DOMAIN hs' \ DOMAIN hs :
              /\ hs'[h].pc = "fetch"
              /\ hs'[h].reqs = <<[path |-> FirstPath(hs'[h].k), out |-> "pending"]>>
              /\ hs'[h].payload = Payload(hs'[h].k, Trim(rawText), Trim(rawEv))
              /\ lastPayload'[Slot(hs'[h].k)] = hs'[h].payload
RenderAfterSettle ==
  /\ \A h \in DOMAIN hs :
       Ends(h) => (\A i \in DOMAIN hs'[h].reqs : hs'[h].reqs[i].out # "pending")
  /\ (ui'.result # ui.result /\ clicks' = clicks) => (\E h \in DOMAIN hs : Ends(h))
C16_StepOrder ==
  [][(variant \in IIFEVariants) =>
       ((clicks = 0 => PendingShown(ui)) /\ AcceptedClickStep /\ RenderAfterSettle)]_vars

\* an accepted click's request is in flight, the page shows the pending
\* state and lastPayload holds the click's payload
C16_Witness ==
  /\ variant \in IIFEVariants /\ PendingShown(ui)
  /\ \E h \in DOMAIN hs :
       /\ hs[h].pc = "fetch" /\ hs[h].click = clicks
       /\ lastPayload[Slot(hs[h].k)] = hs[h].payload

\* C17: in the IIFE variants, a handler that ends in the error state leaves
\* lastResponse as it was, and lastPayload holds that handler's payload.
C17_FailureKeepsResponse ==
  [][\A h \in DOMAIN hs :
       (Ends(h) /\ hs[h].k \in IIFEKinds /\ hs'[h].result = "error")
         => /\ lastResponse' = lastResponse
            /\ lastPayload'[Slot(hs[h].k)] = hs[h].payload]_vars

====
